---------------------------- MODULE Spec2Model ----------------------------
(***************************************************************************)
(* A model of lim1tr's grid builder (Source/grid.py), its timed boundary   *)
(* gate (Source/boundary_types.py) and its reaction manager                *)
(* (Source/reaction.py).                                                   *)
(*                                                                         *)
(* Numbers.  Lengths (thickness, dx) are positive integers in an arbitrary *)
(* length unit; quotients of lengths are exact rationals <<num, den>> in   *)
(* lowest terms, so float rounding error is not modelled.  Arrays indexed  *)
(* by node are functions on 0..n-1 as in the source; Python lists that are *)
(* appended to are sequences holding the source's 0-based values.          *)
(***************************************************************************)
EXTENDS Integers, Sequences, FiniteSets, TLC

VARIABLES
    grid,       \* the grid_manager object
    tb,         \* a timed_boundary object and the boundary condition it wraps
    eqn_sys,    \* the equation system's arrays LHS_c, RHS, J_c, F
    call,       \* the latest call made: its name, arguments, what it raised
    rxn,        \* the reaction_manager object
    step        \* the running solve_ode_all_nodes call: position and locals

(***************************************************************************)
(* Bounds of the grid inputs.                                              *)
(***************************************************************************)
MaxLayers == 2
MaxThickness == 5
MaxDx == 3

MaterialNames == {"M1", "M2"}

(***************************************************************************)
(* Arithmetic helpers.                                                     *)
(***************************************************************************)
Abs(x) == IF x < 0 THEN -x ELSE x

RECURSIVE GCD(_, _)
GCD(a, b) == IF b = 0 THEN a ELSE GCD(b, a % b)

\* The rational n/d (d > 0) in lowest terms.
Rat(n, d) == LET g == GCD(Abs(n), d) IN <<n \div g, d \div g>>
RAdd(p, q) == IF p[2] = 1 /\ q[2] = 1 THEN <<p[1] + q[1], 1>>
              ELSE Rat(p[1] * q[2] + q[1] * p[2], p[2] * q[2])
RLess(p, q) == p[1] * q[2] < q[1] * p[2]
RHalf(p) == Rat(p[1], 2 * p[2])
RZero == <<0, 1>>
RInt(n) == <<n, 1>>
RNeg(p) == <<-p[1], p[2]>>
RSub(p, q) == RAdd(p, RNeg(q))
RMul(p, q) == IF p[2] = 1 /\ q[2] = 1 THEN <<p[1] * q[1], 1>>
              ELSE Rat(p[1] * q[1], p[2] * q[2])
\* p/q for q > 0.
RDiv(p, q) == Rat(p[1] * q[2], p[2] * q[1])
RPow3(p) == RMul(p, RMul(p, p))
RPow4(p) == RMul(RMul(p, p), RMul(p, p))

RECURSIVE SumSeq(_, _)
\* s[1] + ... + s[n]
SumSeq(s, n) == IF n = 0 THEN 0 ELSE SumSeq(s, n - 1) + s[n]

\* A Python list / numpy array built from a sequence: index k holds s[k+1].
Arr(s) == [k \in 0..(Len(s) - 1) |-> s[k + 1]]

\* n copies of x, as a sequence (n*[x]).
Rep(n, x) == [k \in 1..n |-> x]

\* Mutant: int(T/d), truncation instead of rounding.
NpRoundDiv_Trunc(T, d) == T \div d

\* int(np.round(T/d, 0)) for T >= 0, d > 0: round to nearest, ties to even.
NpRoundDiv(T, d) ==
    LET q == T \div d
        r == T % d
    IN  IF 2 * r < d THEN q
        ELSE IF 2 * r > d THEN q + 1
        ELSE IF q % 2 = 0 THEN q ELSE q + 1

(***************************************************************************)
(* grid_manager.                                                           *)
(***************************************************************************)
\* The object before set_table: no attribute is set.
NewGrid ==
    [status |-> "new", raised |-> "",
     layer_names |-> <<>>, layer_dx |-> <<>>, layer_thickness |-> <<>>,
     n_layers |-> 0, n_tot |-> 0,
     mint_list |-> <<>>, first_node_list |-> <<>>,
     mat_nodes |-> <<>>, dx_arr |-> <<>>, x_node |-> <<>>,
     internal_bounds |-> <<>>, k_bounds |-> <<>>]

\* set_table: the three columns of the layer table.
set_table(g, tab_dict) ==
    [g EXCEPT !.status = "table",
              !.layer_names = tab_dict.names,
              !.layer_dx = tab_dict.dx,
              !.layer_thickness = tab_dict.thickness]

\* The layer loop of setup_grid, from layer i (1-based here) on.  acc holds
\* the loop's running values; on thickness < dx the loop stops with the
\* values of the layers before i.
RECURSIVE LayerLoop(_, _, _)
LayerLoop(g, i, acc) ==
    IF i > g.n_layers THEN acc
    ELSE IF g.layer_thickness[i] < g.layer_dx[i]
    THEN [acc EXCEPT !.raised = "ValueError: dx greater than thickness"]
    ELSE
      LET n_m == NpRoundDiv(g.layer_thickness[i], g.layer_dx[i])
          n_tot == acc.n_tot + n_m
          dx_m == Rat(g.layer_thickness[i], n_m)
      IN  LayerLoop(g, i + 1,
            [acc EXCEPT !.first_node_list = Append(@, acc.n_tot),
                        !.nodes_per_layer = Append(@, n_m),
                        !.n_tot = n_tot,
                        !.dx_list = Append(@, dx_m),
                        !.mat_nodes = @ \o Rep(n_m, g.layer_names[i]),
                        !.mint_list = Append(@, n_tot - 1)])

\* Mutant: the single-node check without its n_layers > 1 guard.
SingleNodeLayers_Unguarded(n_layers, nodes_per_layer) ==
    {i \in 0..(n_layers - 1) : nodes_per_layer[i + 1] <= 1}

\* The layers (0-based) with at most one control volume; only looked for
\* when there is more than one layer.
SingleNodeLayers(n_layers, nodes_per_layer) ==
    IF n_layers > 1
    THEN {i \in 0..(n_layers - 1) : nodes_per_layer[i + 1] <= 1}
    ELSE {}

\* Mutant: the layer counter m is never advanced.
RECURSIVE DxLoop_NoAdvance(_, _, _, _, _)
DxLoop_NoAdvance(i, m, n_tot, dx_list, mint_list) ==
    IF i >= n_tot THEN <<>>
    ELSE <<dx_list[m + 1]>> \o DxLoop_NoAdvance(i + 1, m, n_tot, dx_list, mint_list)

\* The dx array: node i takes dx_list[m], m moving on after each mint node.
RECURSIVE DxLoop(_, _, _, _, _)
DxLoop(i, m, n_tot, dx_list, mint_list) ==
    IF i >= n_tot THEN <<>>
    ELSE <<dx_list[m + 1]>> \o
         DxLoop(i + 1, IF i = mint_list[m + 1] THEN m + 1 ELSE m,
                n_tot, dx_list, mint_list)

\* np.sum(dx_arr[:i])
RECURSIVE SumBefore(_, _)
SumBefore(dx_arr, i) ==
    IF i = 0 THEN RZero ELSE RAdd(SumBefore(dx_arr, i - 1), dx_arr[i - 1])

\* x_node[i] = 0.5*dx_arr[i] + np.sum(dx_arr[:i])
NodeLocation(dx_arr, i) == RAdd(RHalf(dx_arr[i]), SumBefore(dx_arr, i))

\* internal_bounds: the first pair is built from mint_list[0] before the
\* loop over the other layers, so the list of no layer has no value (the
\* read of mint_list[0] raises IndexError).
InternalBounds(n_layers, mint_list) ==
    <<<<1, mint_list[1]>>>> \o
    [m \in 1..(n_layers - 1) |-> <<mint_list[m] + 2, mint_list[m + 1]>>]

\* k_bounds, built alongside internal_bounds.
KBounds(n_layers, mint_list) ==
    <<<<0, mint_list[1]>>>> \o
    [m \in 1..(n_layers - 1) |-> <<mint_list[m] + 1, mint_list[m + 1]>>]

\* setup_grid, whole: the attributes it has assigned when it returns or
\* raises.
setup_grid(g0) ==
    LET g == [g0 EXCEPT !.n_layers = Len(g0.layer_names)]
        acc == LayerLoop(g, 1,
                 [raised |-> "", n_tot |-> 0, mat_nodes |-> <<>>,
                  nodes_per_layer |-> <<>>, mint_list |-> <<>>,
                  first_node_list |-> <<>>, dx_list |-> <<>>])
        g1 == [g EXCEPT !.n_tot = acc.n_tot,
                        !.mint_list = acc.mint_list,
                        !.first_node_list = acc.first_node_list]
    IN  IF acc.raised # ""
        THEN [g1 EXCEPT !.status = "error", !.raised = acc.raised]
        ELSE IF SingleNodeLayers(g.n_layers, acc.nodes_per_layer) # {}
        THEN [g1 EXCEPT !.status = "error",
                        !.raised = "ValueError: only 1 control volume"]
        ELSE IF Len(acc.mint_list) = 0
        THEN \* No layer: mat_nodes and dx_arr are empty arrays, and the read
             \* of mint_list[0] for the bounds lists raises.
             [g1 EXCEPT !.status = "error",
                        !.raised = "IndexError: list index out of range",
                        !.mat_nodes = Arr(<<>>),
                        !.dx_arr = Arr(<<>>)]
        ELSE
          LET dx_arr == Arr(DxLoop(0, 0, acc.n_tot, acc.dx_list, acc.mint_list))
          IN  [g1 EXCEPT
                 !.status = "ok",
                 !.mat_nodes = Arr(acc.mat_nodes),
                 !.dx_arr = dx_arr,
                 !.internal_bounds = InternalBounds(g.n_layers, acc.mint_list),
                 !.k_bounds = KBounds(g.n_layers, acc.mint_list),
                 !.x_node = [i \in 0..(acc.n_tot - 1) |-> NodeLocation(dx_arr, i)]]

(***************************************************************************)
(* Boundary conditions (Source/boundary_types.py).  Temperatures are in    *)
(* units of 100 K, so that the Stefan-Boltzmann constant 5.67e-8 W/m2/K4   *)
(* is 567/100 per (100 K)^4.  Every quantity is an exact rational.         *)
(***************************************************************************)
StefanBoltzmann == <<567, 100>>

\* No boundary object has been constructed.
NoBoundary == [off_time |-> 0]

\* end_bc.__init__: the node and conductivity index of the chosen end.
end_bc(dx_arr, my_end) ==
    LET n_tot == Cardinality(DOMAIN dx_arr)
        base == [raised |-> "", name |-> <<"end">>, dx_arr |-> dx_arr,
                 n_tot |-> n_tot, n_ind |-> 0, k_ind |-> 0]
    IN  IF my_end = "Left" THEN base
        ELSE IF my_end = "Right"
        THEN [base EXCEPT !.n_ind = n_tot - 1, !.k_ind = n_tot - 2]
        ELSE [base EXCEPT !.raised = "ValueError: unrecognized boundary type"]

\* ext_bc.__init__
ext_bc(dx_arr, PA_r) ==
    [raised |-> "", name |-> <<"ext">>, dx_arr |-> dx_arr,
     n_tot |-> Cardinality(DOMAIN dx_arr), PA_r |-> PA_r]

\* The set_params of the five classes; each appends its suffix to the name.
end_convection_set_params(b, h, T) ==
    [class |-> "end_convection", name |-> Append(b.name, "_convection"),
     dx_arr |-> b.dx_arr, n_tot |-> b.n_tot, n_ind |-> b.n_ind, k_ind |-> b.k_ind,
     h_end |-> h, T_end |-> T]

end_flux_set_params(b, flux) ==
    [class |-> "end_flux", name |-> Append(b.name, "_flux"),
     dx_arr |-> b.dx_arr, n_tot |-> b.n_tot, n_ind |-> b.n_ind, k_ind |-> b.k_ind,
     flux |-> flux]

end_radiation_set_params(b, eps, T) ==
    [class |-> "end_radiation", name |-> Append(b.name, "_radiation"),
     dx_arr |-> b.dx_arr, n_tot |-> b.n_tot, n_ind |-> b.n_ind, k_ind |-> b.k_ind,
     sigma_eps |-> RMul(StefanBoltzmann, eps), T_ext_4 |-> RPow4(T)]

ext_convection_set_params(b, h, T) ==
    [class |-> "ext_convection", name |-> Append(b.name, "_convection"),
     dx_arr |-> b.dx_arr, n_tot |-> b.n_tot, PA_r |-> b.PA_r,
     h_ext |-> h, T_ext |-> T]

ext_radiation_set_params(b, eps, T) ==
    [class |-> "ext_radiation", name |-> Append(b.name, "_radiation"),
     dx_arr |-> b.dx_arr, n_tot |-> b.n_tot, PA_r |-> b.PA_r,
     sigma_eps |-> RMul(StefanBoltzmann, eps), T_ext_4 |-> RPow4(T)]

\* c_end = h*phi/(h + phi) with phi = 2*k_arr[k_ind]/dx_arr[n_ind]
CEnd(b, k_arr) ==
    LET phi == RDiv(RMul(RInt(2), k_arr[b.k_ind]), b.dx_arr[b.n_ind])
    IN  RDiv(RMul(b.h_end, phi), RAdd(b.h_end, phi))

\* arr[i] += v
AddAt(arr, i, v) == [arr EXCEPT ![i] = RAdd(@, v)]

\* bc.apply(eqn_sys, mat_man[, T]) of the wrapped class.
bc_apply(b, eqn, k_arr, T) ==
    IF b.class = "end_convection" THEN
        LET c_end == CEnd(b, k_arr)
        IN  [eqn EXCEPT !.LHS_c = AddAt(@, b.n_ind, c_end),
                        !.RHS = AddAt(@, b.n_ind, RMul(c_end, b.T_end))]
    ELSE IF b.class = "end_flux" THEN
        [eqn EXCEPT !.RHS = AddAt(@, b.n_ind, b.flux)]
    ELSE IF b.class = "end_radiation" THEN
        [eqn EXCEPT
           !.J_c = AddAt(@, b.n_ind,
                         RMul(b.sigma_eps, RMul(RInt(4), RPow3(T[b.n_ind])))),
           !.F = AddAt(@, b.n_ind,
                       RMul(b.sigma_eps, RSub(RPow4(T[b.n_ind]), b.T_ext_4)))]
    ELSE IF b.class = "ext_convection" THEN
        [eqn EXCEPT
           !.LHS_c = [i \in DOMAIN @ |->
                        RAdd(@[i], RMul(b.h_ext, RMul(b.dx_arr[i], b.PA_r)))],
           !.RHS = [i \in DOMAIN @ |->
                        RAdd(@[i], RMul(RMul(b.h_ext, RMul(b.dx_arr[i], b.PA_r)),
                                        b.T_ext))]]
    ELSE \* ext_radiation
        [eqn EXCEPT
           !.J_c = [i \in DOMAIN @ |->
                      RAdd(@[i], RMul(RMul(b.dx_arr[i], b.PA_r),
                                      RMul(b.sigma_eps, RMul(RInt(4), RPow3(T[i])))))],
           !.F = [i \in DOMAIN @ |->
                      RAdd(@[i], RMul(RMul(b.dx_arr[i], b.PA_r),
                                      RMul(b.sigma_eps, RSub(RPow4(T[i]), b.T_ext_4))))]]

\* bc.apply_operator(eqn_sys, mat_man, T) of the wrapped class.
bc_apply_operator(b, eqn, k_arr, T) ==
    IF b.class = "end_convection" THEN
        [eqn EXCEPT !.RHS = AddAt(@, b.n_ind,
                                  RMul(CEnd(b, k_arr), RSub(b.T_end, T[b.n_ind])))]
    ELSE IF b.class = "end_flux" THEN
        [eqn EXCEPT !.RHS = AddAt(@, b.n_ind, b.flux)]
    ELSE IF b.class = "end_radiation" THEN
        [eqn EXCEPT !.RHS = AddAt(@, b.n_ind,
                        RNeg(RMul(b.sigma_eps, RSub(RPow4(T[b.n_ind]), b.T_ext_4))))]
    ELSE IF b.class = "ext_convection" THEN
        [eqn EXCEPT
           !.RHS = [i \in DOMAIN @ |->
                      RAdd(@[i], RMul(RMul(b.h_ext, RMul(b.dx_arr[i], b.PA_r)),
                                      RSub(b.T_ext, T[i])))]]
    ELSE \* ext_radiation
        [eqn EXCEPT
           !.RHS = [i \in DOMAIN @ |->
                      RSub(@[i], RMul(RMul(b.dx_arr[i], b.PA_r),
                                      RMul(b.sigma_eps, RSub(RPow4(T[i]), b.T_ext_4))))]]

(***************************************************************************)
(* timed_boundary.  The times given to the gate are doubles on which the   *)
(* code's float subtraction is exact: 0 s and 1e-14 * 2^(e-2) s, that is   *)
(* 5e-15 s, 1e-14 s, 2e-14 s, 4e-14 s, ...  A time is held as its index e: *)
(* 0 for 0 s, and e >= 1 for 2^(e-1) units of 5e-15 s.  In these units the *)
(* tolerance 1e-14 of the gate is 2.  Other decimal times are not held:    *)
(* on them the float difference need not compare with 1e-14 as the exact   *)
(* difference does (2.5e-14 - 1.5e-14 is 1.0000000000000002e-14).          *)
(***************************************************************************)
GateTolerance == 2

RECURSIVE TwoTo(_)
TwoTo(k) == IF k = 0 THEN 1 ELSE 2 * TwoTo(k - 1)
\* The time with index e, in units of 5e-15 s.
TimeUnits(e) == IF e = 0 THEN 0 ELSE TwoTo(e - 1)

\* timed_boundary.__init__: tot_time is not an attribute until set_time.
timed_boundary(b, off_time) ==
    [bc |-> [b EXCEPT !.name = Append(@, "_timed")], off_time |-> off_time]

\* timed_boundary.set_time(tot_time)
set_time(t, tot_time) ==
    [bc |-> t.bc, off_time |-> t.off_time, tot_time |-> tot_time]

\* The object has the attribute tot_time: set_time has been called.
HasTotTime(t) == "tot_time" \in DOMAIN t

\* Mutant: the gate compares the times without the tolerance.
GateOpen_NoTolerance(t) == TimeUnits(t.off_time) > TimeUnits(t.tot_time)

\* The condition of both gated methods: off_time - tot_time > 1e-14.  It
\* reads self.tot_time, which an object without the attribute does not
\* have.
GateOpen(t) == TimeUnits(t.off_time) - TimeUnits(t.tot_time) > GateTolerance

\* timed_boundary.apply(*args): what the call raises, and the equation
\* system after it.  Before any set_time the read of self.tot_time raises
\* AttributeError.
timed_apply(t, eqn, k_arr, T) ==
    IF ~HasTotTime(t)
    THEN [raised |-> "AttributeError: no attribute tot_time", eqn_sys |-> eqn]
    ELSE [raised |-> "",
          eqn_sys |-> IF GateOpen(t) THEN bc_apply(t.bc, eqn, k_arr, T) ELSE eqn]

\* timed_boundary.apply_operator(*args)
timed_apply_operator(t, eqn, k_arr, T) ==
    IF ~HasTotTime(t)
    THEN [raised |-> "AttributeError: no attribute tot_time", eqn_sys |-> eqn]
    ELSE [raised |-> "",
          eqn_sys |-> IF GateOpen(t) THEN bc_apply_operator(t.bc, eqn, k_arr, T)
                      ELSE eqn]

(***************************************************************************)
(* reaction_manager (Source/reaction.py): construction and loading.        *)
(*                                                                         *)
(* Species densities are in units of 0.5e-15 kg/m3, so that the small      *)
(* constant 1.0e-15 is 2 units: a density of 1 unit or a negative one is   *)
(* below the threshold without being zero.  Densities, rates and           *)
(* temperatures are exact rationals <<num, den>>.  Python dicts are        *)
(* functions on their keys; a key assigned twice holds the last value.     *)
(***************************************************************************)
SmallNumber == 2

\* The reaction_manager before __init__ has run.
NoReactionManager == [status |-> "none"]

\* mat_man of the run: its layer_names are the table's, and get_material
\* gives the density and specific heat of a material.
MatMan(g) ==
    [layer_names |-> g.layer_names,
     rho |-> [nm \in MaterialNames |-> 4],
     cp |-> [nm \in MaterialNames |-> 1]]

\* reaction_manager.__init__(grid_man, other_opts)
reaction_manager(grid_man, other_opts) ==
    LET dsc_mode == IF "DSC Mode" \in DOMAIN other_opts
                    THEN other_opts["DSC Mode"] ELSE 0
        rxn_only == IF "Reaction Only" \in DOMAIN other_opts
                    THEN other_opts["Reaction Only"] # 0 ELSE FALSE
        dsc_rate == IF dsc_mode # 0 /\ "DSC Rate" \in DOMAIN other_opts
                    THEN other_opts["DSC Rate"] ELSE 0
    IN  IF dsc_mode # 0 /\ "DSC Rate" \notin DOMAIN other_opts
        THEN [status |-> "none", raised |-> "ValueError: no DSC Rate"]
        ELSE IF rxn_only /\ grid_man.n_tot # 1
        THEN [status |-> "none", raised |-> "ValueError: multiple control volumes"]
        ELSE [status |-> "constructed", raised |-> "",
              n_tot |-> grid_man.n_tot,
              mat_nodes |-> grid_man.mat_nodes,
              first_node_list |-> grid_man.first_node_list,
              cross_area |-> other_opts["Y Dimension"] * other_opts["Z Dimension"],
              dsc_mode |-> dsc_mode, dsc_rate |-> dsc_rate,
              dsc_info |-> <<dsc_mode, dsc_rate>>,
              rxn_only |-> rxn_only,
              species_density |-> <<>>,
              species_rate |-> <<>>,
              small_number |-> SmallNumber]

\* The initial mass fractions of a species table are held in eighths: the
\* integer k stands for the fraction k/8.  On such fractions the float sum
\* of reaction.py:62 and the float product of reaction.py:84 are exact.
FractionDenominator == 8

\* The cell loop of load_species from layer k (0-based) on: the cell count
\* and the node key, cell_node_key[first_node_list[k]:first_node_list[k+1]]
\* being set to the running cell count on every layer of the material.
RECURSIVE CellLoop(_, _, _, _, _)
CellLoop(k, layer_names, mat_name, fnl, acc) ==
    IF k >= Len(layer_names) THEN acc
    ELSE IF mat_name = layer_names[k + 1]
    THEN LET n_cells == acc.n_cells + 1
         IN  CellLoop(k + 1, layer_names, mat_name, fnl,
               [n_cells |-> n_cells,
                cell_node_key |->
                  [j \in DOMAIN acc.cell_node_key |->
                     IF fnl[k + 1] <= j /\ j < fnl[k + 2]
                     THEN n_cells ELSE acc.cell_node_key[j]]])
    ELSE CellLoop(k + 1, layer_names, mat_name, fnl, acc)

\* The elements of 0..n-1 that satisfy Keep, ascending, as a sequence
\* (np.argwhere(...).flatten()).
ArgWhere(arr, x) ==
    LET n == Cardinality(DOMAIN arr)
        F[j \in 0..n] ==
          IF j = 0 THEN <<>>
          ELSE IF arr[j - 1] = x THEN Append(F[j - 1], j - 1) ELSE F[j - 1]
    IN  F[n]

\* The last position of name nm in the list names: the loops over the
\* species assign the entry of a repeated name once per position, and the
\* last assignment stays.
LastIndex(names, nm) ==
    CHOOSE q \in 1..Len(names) :
       /\ names[q] = nm
       /\ \A p \in (q + 1)..Len(names) : names[p] # nm

\* reaction_manager.load_species(spec_dict, mat_man).  The fractions being
\* eighths, abs(1. - sum) > 1e-15 says that they do not add up to 8/8.
\* The attributes the call does not assign stay as they are, and the keys
\* of species_density and species_rate are added to the dicts the manager
\* already has.
load_species(r, spec_dict, mat_man) ==
    LET fracs == spec_dict["Initial Mass Fraction"]
        names == spec_dict["Names"]
    IN
    IF Len(fracs) # Len(names)
    THEN [r EXCEPT !.status = "error", !.raised = "ValueError: names and fractions differ in number"]
    ELSE IF SumSeq(fracs, Len(fracs)) # FractionDenominator
    THEN [r EXCEPT !.status = "error", !.raised = "ValueError: mass fractions do not sum to 1.0"]
    ELSE
      LET mat_name == spec_dict["Material Name"]
          rho == mat_man.rho[mat_name]
          cp == mat_man.cp[mat_name]
          nodes == 0..(r.n_tot - 1)
          keys == {names[q] : q \in 1..Len(names)}
          fnl == r.first_node_list \o <<r.n_tot>>
          cells == CellLoop(0, mat_man.layer_names, mat_name, fnl,
                     [n_cells |-> 0, cell_node_key |-> [j \in nodes |-> 0]])
      IN  [status |-> "species", raised |-> "",
           mat_name |-> mat_name, rho |-> rho, cp |-> cp, rho_cp |-> rho * cp,
           n_species |-> Len(names),
           species_name_list |-> names,
           species_density |->
             [nm \in keys |->
                [j \in nodes |->
                   IF mat_name = r.mat_nodes[j]
                   THEN Rat(fracs[LastIndex(names, nm)] * rho, FractionDenominator)
                   ELSE RZero]] @@ r.species_density,
           species_rate |->
             [nm \in keys |-> [j \in nodes |-> RZero]] @@ r.species_rate,
           heat_release_rate |-> [j \in nodes |-> RZero],
           temperature_rate |-> [j \in nodes |-> RZero],
           material_info |->
             [Names |-> names,
              MolecularWeights |->
                [nm \in keys |->
                   spec_dict["Molecular Weights"][LastIndex(names, nm)]],
              rho |-> rho, cp |-> cp],
           n_cells |-> cells.n_cells,
           cell_node_key |-> cells.cell_node_key,
           first_node_list |-> fnl,
           active_nodes |-> ArgWhere(r.mat_nodes, mat_name),
           inactive_node_list |-> <<>>] @@ r

(***************************************************************************)
(* The collaborators of load_reactions and solve_ode_all_nodes whose code  *)
(* is outside Source/reaction.py: the reaction model factory, the grouping *)
(* helper and the reaction system with its ODE solver.                     *)
(***************************************************************************)
\* rxn_model_factory(rxn_info, material_info): the reaction model and its
\* column of frac_mat, -1 on the reactant and +1 on the product (if any).
rxn_model_factory(rxn_info, material_info) ==
    LET names == material_info.Names
        col == [q \in 1..Len(names) |->
                  IF names[q] = rxn_info["Reactant"] THEN -1
                  ELSE IF names[q] = rxn_info["Product"] THEN 1 ELSE 0]
        model == [type |-> IF "Type" \in DOMAIN rxn_info
                           THEN rxn_info["Type"] ELSE "Basic",
                  reactant |-> CHOOSE q \in 1..Len(names) :
                                  names[q] = rxn_info["Reactant"]]
    IN  <<model, col>>

\* The mask column of cell c (1-based): which reactions are active on it.
MaskColumn(active_cells, c) == [i \in 1..Len(active_cells) |-> active_cells[i][c]]

\* The position of x in the sequence s, 0 if it is not there.
IndexOf(s, x) == IF \E q \in 1..Len(s) : s[q] = x
                 THEN CHOOSE q \in 1..Len(s) : s[q] = x ELSE 0

\* The distinct mask columns in order of first appearance, and for each
\* cell the 0-based index of its column among them: each distinct column
\* is one system, the column that flags no reaction included.
RECURSIVE find_unique_systems(_, _, _, _)
find_unique_systems(active_cells, n_cells, c, acc) ==
    IF c > n_cells THEN acc
    ELSE
      LET col == MaskColumn(active_cells, c)
          at == IndexOf(acc.unique_system_list, col)
      IN  IF at > 0
          THEN find_unique_systems(active_cells, n_cells, c + 1,
                 [acc EXCEPT !.system_index = Append(@, at - 1)])
          ELSE find_unique_systems(active_cells, n_cells, c + 1,
                 [unique_system_list |-> Append(acc.unique_system_list, col),
                  system_index |->
                    Append(acc.system_index, Len(acc.unique_system_list))])

\* reaction_system_helper.map_all_systems(active_cells, cell_node_key):
\* every node of a cell takes the index of the cell's system.  A node whose
\* key names a cell the mask does not have cannot be resolved, which is
\* fatal; a node of another material (cell_node_key 0) is in no cell, is
\* never integrated, and keeps the index -1.
map_all_systems(active_cells, n_cells, cell_node_key) ==
    LET found == find_unique_systems(active_cells, n_cells, 1,
                   [unique_system_list |-> <<>>, system_index |-> <<>>])
    IN  IF \E j \in DOMAIN cell_node_key :
              cell_node_key[j] < 0 \/ cell_node_key[j] > n_cells
        THEN [raised |-> "ValueError: node resolves to no reaction system",
              node_to_system_map |-> [j \in DOMAIN cell_node_key |-> -1],
              unique_system_list |-> <<>>]
        ELSE [raised |-> "",
              node_to_system_map |->
                [j \in DOMAIN cell_node_key |->
                   IF cell_node_key[j] = 0 THEN -1
                   ELSE found.system_index[cell_node_key[j]]],
              unique_system_list |-> found.unique_system_list]

\* reaction_system.reaction_system(frac_mat, model_list, rho_cp, dsc_info)
reaction_system(frac_mat, model_list, rho_cp, dsc_info) ==
    [frac_mat |-> frac_mat, model_list |-> model_list,
     rho_cp |-> rho_cp, dsc_info |-> dsc_info]

RECURSIVE SumOver(_, _)
\* The sum of the rationals f[1..n].
SumOver(f, n) == IF n = 0 THEN RZero ELSE RAdd(SumOver(f, n - 1), f[n])

\* What reaction q of a system consumes of its reactant over one macro
\* step from state v: nothing when cold or without reactant, else all but
\* one unit of it.
Consumed(sys, q, v) ==
    LET x == v[sys.model_list[q].reactant]
        T == v[Len(v)]
    IN  IF ~RLess(T, RInt(1)) /\ ~RLess(x, RInt(1))
        THEN (IF ~RLess(x, RInt(2)) THEN RSub(x, RInt(1)) ELSE RInt(1))
        ELSE RZero

\* reaction_system.solve_ode_node(t_arr, v_in, ...): the last row of the
\* solution, species densities first and the temperature last.  Reactions
\* sharing a reactant each consume from the starting value, so a density
\* can end below zero.
solve_ode_node(sys, v_in) ==
    LET n_rxn == Len(sys.model_list)
        used == [q \in 1..n_rxn |-> Consumed(sys, q, v_in)]
        n == Len(v_in)
    IN  [j \in 1..n |->
           IF j < n
           THEN RAdd(v_in[j],
                     SumOver([q \in 1..n_rxn |->
                                RMul(RInt(sys.frac_mat[j][q]), used[q])], n_rxn))
           ELSE IF sys.dsc_info[1] # 0 THEN RAdd(v_in[n], RInt(sys.dsc_info[2]))
           ELSE RAdd(v_in[n], SumOver(used, n_rxn))]

\* reaction_system.get_rates(v): the species rates and last the
\* temperature rate at state v.
get_rates(sys, v) ==
    LET n_rxn == Len(sys.model_list)
        n == Len(v)
        rate == [q \in 1..n_rxn |->
                   LET x == v[sys.model_list[q].reactant]
                   IN  IF ~RLess(v[n], RInt(1)) /\ ~RLess(x, RInt(1))
                       THEN x ELSE RZero]
    IN  [j \in 1..n |->
           IF j < n
           THEN SumOver([q \in 1..n_rxn |->
                           RMul(RInt(sys.frac_mat[j][q]), rate[q])], n_rxn)
           ELSE IF sys.dsc_info[1] # 0 THEN RInt(sys.dsc_info[2])
           ELSE SumOver(rate, n_rxn)]

\* reaction_system.check_complete(v): every reaction's reactant is below
\* the small number.
check_complete(sys, v) ==
    \A q \in 1..Len(sys.model_list) :
       RLess(v[sys.model_list[q].reactant], RInt(SmallNumber))

(***************************************************************************)
(* reaction_manager.load_reactions                                         *)
(***************************************************************************)
\* sorted(rxn_dict.keys())
RECURSIVE SortedSeq(_)
SortedSeq(S) ==
    IF S = {} THEN <<>>
    ELSE LET m == CHOOSE x \in S : \A y \in S : x <= y
         IN  <<m>> \o SortedSeq(S \ {m})

\* active_cells[i, cell_num-1] = 1
MarkCell(row, cell_num) == [row EXCEPT ![cell_num] = 1]

\* The 'Active Cells' loop of one reaction from the q-th listed cell on.
RECURSIVE ActiveCellLoop(_, _, _, _)
ActiveCellLoop(cell_nums, q, n_cells, acc) ==
    IF q > Len(cell_nums) \/ acc.raised # "" THEN acc
    ELSE IF cell_nums[q] > n_cells
    THEN [acc EXCEPT !.raised = "ValueError: cell does not exist"]
    ELSE IF cell_nums[q] < 1
    THEN [acc EXCEPT !.raised = "ValueError: cell number must be greater than 1"]
    ELSE ActiveCellLoop(cell_nums, q + 1, n_cells,
           [acc EXCEPT !.row = MarkCell(@, cell_nums[q])])

\* The row of active_cells of one reaction.
ActiveCellRow(rxn_info, n_cells) ==
    IF "Active Cells" \notin DOMAIN rxn_info
    THEN [raised |-> "", row |-> [c \in 1..n_cells |-> 1]]
    ELSE ActiveCellLoop(rxn_info["Active Cells"], 1, n_cells,
           [raised |-> "", row |-> [c \in 1..n_cells |-> 0]])

\* The reaction loop of load_reactions from reaction i (1-based) on.
RECURSIVE ReactionLoop(_, _, _, _, _)
ReactionLoop(r, rxn_dict, rxn_nums, i, acc) ==
    IF i > Len(rxn_nums) \/ acc.raised # "" THEN acc
    ELSE
      LET rxn_info == rxn_dict[rxn_nums[i]]
          made == rxn_model_factory(rxn_info, r.material_info)
          cells == ActiveCellRow(rxn_info, r.n_cells)
      IN  ReactionLoop(r, rxn_dict, rxn_nums, i + 1,
            [raised |-> cells.raised,
             frac_cols |-> Append(acc.frac_cols, made[2]),
             model_list |-> Append(acc.model_list, made[1]),
             active_cells |-> Append(acc.active_cells, cells.row)])

\* Mutant: every system is given all the reactions.
SystemReactions_All(tmp_sys) == [j \in 1..Len(tmp_sys) |-> j]

\* rxn_inds: the (1-based) reactions flagged in the mask tmp_sys, ascending.
SystemReactions(tmp_sys) ==
    LET F[j \in 0..Len(tmp_sys)] ==
          IF j = 0 THEN <<>>
          ELSE IF tmp_sys[j] # 0 THEN Append(F[j - 1], j) ELSE F[j - 1]
    IN  F[Len(tmp_sys)]

\* reaction_manager.load_reactions(rxn_dict)
load_reactions(r, rxn_dict) ==
    LET rxn_nums == SortedSeq(DOMAIN rxn_dict)
        n_rxn == Len(rxn_nums)
        acc == ReactionLoop(r, rxn_dict, rxn_nums, 1,
                 [raised |-> "", frac_cols |-> <<>>, model_list |-> <<>>,
                  active_cells |-> <<>>])
        base == ("n_rxn" :> n_rxn) @@ ("model_list" :> acc.model_list) @@ r
    IN  IF acc.raised # ""
        THEN [base EXCEPT !.status = "error", !.raised = acc.raised]
        ELSE
          LET mapped == map_all_systems(acc.active_cells, r.n_cells, r.cell_node_key)
              unique_system_list == mapped.unique_system_list
              \* frac_mat[j][i]: species j, reaction i
              frac_mat == [j \in 1..r.n_species |->
                             [i \in 1..n_rxn |-> acc.frac_cols[i][j]]]
              systems ==
                [k \in 1..Len(unique_system_list) |->
                   LET rxn_inds == SystemReactions(unique_system_list[k])
                   IN  reaction_system(
                         [j \in 1..r.n_species |->
                            [q \in 1..Len(rxn_inds) |-> frac_mat[j][rxn_inds[q]]]],
                         [q \in 1..Len(rxn_inds) |-> acc.model_list[rxn_inds[q]]],
                         r.rho_cp, r.dsc_info)]
          IN  IF mapped.raised # ""
              THEN [base EXCEPT !.status = "error", !.raised = mapped.raised]
              ELSE ("node_to_system_map" :> mapped.node_to_system_map) @@
                   ("reaction_systems" :> systems) @@
                   [base EXCEPT !.status = "ready"]

(***************************************************************************)
(* reaction_manager.solve_ode_all_nodes and clear_nodes                    *)
(***************************************************************************)
\* np.delete(arr, idxs): arr without the positions (0-based) listed in idxs.
NpDelete(arr, idxs) ==
    LET gone == {idxs[q] : q \in 1..Len(idxs)}
        F[j \in 0..Len(arr)] ==
          IF j = 0 THEN <<>>
          ELSE IF (j - 1) \in gone THEN F[j - 1] ELSE Append(F[j - 1], arr[j])
    IN  F[Len(arr)]

\* The name nm is in species_name_list: the loops over the species reach
\* its entries of species_density and species_rate.
Listed(r, nm) == \E q \in 1..Len(r.species_name_list) : r.species_name_list[q] = nm

\* Mutant: the heat release rate is left as it is.
ClearNode_KeepHeatRelease(r, i) ==
    [r EXCEPT
       !.species_density =
          [nm \in DOMAIN @ |->
             IF Listed(r, nm)
             THEN [@[nm] EXCEPT ![i] = IF RLess(@, RInt(r.small_number)) THEN RZero ELSE @]
             ELSE @[nm]],
       !.species_rate =
          [nm \in DOMAIN @ |->
             IF Listed(r, nm) THEN [@[nm] EXCEPT ![i] = RZero] ELSE @[nm]],
       !.temperature_rate = [@ EXCEPT ![i] = RZero]]

\* The body of clear_nodes' loop for node i: densities below the small
\* number become 0.0, every rate of the node becomes 0.0.
ClearNode(r, i) ==
    [r EXCEPT
       !.species_density =
          [nm \in DOMAIN @ |->
             IF Listed(r, nm)
             THEN [@[nm] EXCEPT ![i] = IF RLess(@, RInt(r.small_number)) THEN RZero ELSE @]
             ELSE @[nm]],
       !.species_rate =
          [nm \in DOMAIN @ |->
             IF Listed(r, nm) THEN [@[nm] EXCEPT ![i] = RZero] ELSE @[nm]],
       !.temperature_rate = [@ EXCEPT ![i] = RZero],
       !.heat_release_rate = [@ EXCEPT ![i] = RZero]]

RECURSIVE ClearLoop(_, _)
ClearLoop(r, q) ==
    IF q > Len(r.inactive_node_list) THEN r
    ELSE ClearLoop(ClearNode(r, r.active_nodes[r.inactive_node_list[q] + 1]), q + 1)

\* Mutant: active_nodes is rebuilt from the material's nodes, less the
\* nodes just cleared.
clear_nodes_Rebuild(r) ==
    LET c == ClearLoop(r, 1)
        gone == {r.active_nodes[r.inactive_node_list[q] + 1] :
                    q \in 1..Len(r.inactive_node_list)}
        all == ArgWhere(r.mat_nodes, r.mat_name)
    IN  [c EXCEPT !.active_nodes = SelectSeq(all, LAMBDA n : n \notin gone),
                  !.inactive_node_list = <<>>]

\* reaction_manager.clear_nodes()
clear_nodes(r) ==
    LET c == ClearLoop(r, 1)
    IN  [c EXCEPT !.active_nodes = NpDelete(@, c.inactive_node_list),
                  !.inactive_node_list = <<>>]

\* Mutant: a completed node is taken out of active_nodes at once.
MarkComplete_RemoveNow(r, act_ind) ==
    [r EXCEPT !.active_nodes = NpDelete(@, <<act_ind>>)]

\* self.inactive_node_list.append(act_ind)
MarkComplete(r, act_ind) ==
    [r EXCEPT !.inactive_node_list = Append(@, act_ind)]

\* Mutant: system 0 is taken for no system too.
NoSystem_OrFirst(sys_ind) == sys_ind <= 0

\* sys_ind < 0: the node has no reaction system.
NoSystem(sys_ind) == sys_ind < 0

\* Mutant: the starting densities are read at act_ind, not at node i.
StartValues_AtActInd(r, T_in, i, act_ind) ==
    [j \in 1..(r.n_species + 1) |->
       IF j <= r.n_species
       THEN r.species_density[r.species_name_list[j]][act_ind]
       ELSE T_in[i]]

\* v_in: the node's species densities in order, then its temperature.
StartValues(r, T_in, i, act_ind) ==
    [j \in 1..(r.n_species + 1) |->
       IF j <= r.n_species
       THEN r.species_density[r.species_name_list[j]][i]
       ELSE T_in[i]]

\* Mutant: the position in active_nodes is taken for the node index.
NodeIndex_Position(r, act_ind) == act_ind

\* i = self.active_nodes[act_ind]: the node at position act_ind (0-based).
NodeIndex(r, act_ind) == r.active_nodes[act_ind + 1]

\* One pass of the loop over the active nodes, for position act_ind
\* (0-based) of active_nodes: the manager and T_out after it, or the
\* ValueError it raises.
IntegrateNode(r, T_in, T_out, act_ind) ==
    LET i == NodeIndex(r, act_ind)
        sys_ind == r.node_to_system_map[i]
    IN
    IF NoSystem(sys_ind)
    THEN [raised |-> "ValueError: no reaction system specified on node",
          i |-> i, rxn |-> r, T_out |-> T_out]
    ELSE
      LET sys == r.reaction_systems[sys_ind + 1]
          v_in == StartValues(r, T_in, i, act_ind)
          my_sol == solve_ode_node(sys, v_in)
          rate_arr == get_rates(sys, my_sol)
          n == r.n_species
          r1 == [r EXCEPT
                   !.species_density =
                      [nm \in DOMAIN @ |->
                         IF Listed(r, nm)
                         THEN [@[nm] EXCEPT
                                 ![i] = my_sol[LastIndex(r.species_name_list, nm)]]
                         ELSE @[nm]],
                   !.species_rate =
                      [nm \in DOMAIN @ |->
                         IF Listed(r, nm)
                         THEN [@[nm] EXCEPT
                                 ![i] = rate_arr[LastIndex(r.species_name_list, nm)]]
                         ELSE @[nm]],
                   !.temperature_rate = [@ EXCEPT ![i] = rate_arr[n + 1]],
                   !.heat_release_rate =
                      [@ EXCEPT ![i] = RMul(rate_arr[n + 1], RInt(r.rho_cp))]]
      IN  [raised |-> "", i |-> i,
           rxn |-> IF check_complete(sys, my_sol) THEN MarkComplete(r1, act_ind) ELSE r1,
           T_out |-> [T_out EXCEPT ![i] = my_sol[n + 1]]]

\* The start of solve_ode_all_nodes: pending nodes are cleared before the
\* loop over the active nodes begins.
ClearPending(r) == IF Len(r.inactive_node_list) > 0 THEN clear_nodes(r) ELSE r

\* The loop over the active nodes taken in the given order of positions,
\* from the q-th of them on; it stops at the first pass that raises.
RECURSIVE LoopInOrder(_, _, _)
LoopInOrder(st, order, q) ==
    IF q > Len(order) \/ st.raised # "" THEN st
    ELSE LoopInOrder(IntegrateNode(st.rxn, st.T_in, st.T_out, order[q])
                       @@ [T_in |-> st.T_in],
                     order, q + 1)

(***************************************************************************)
(* The boundary specification: a timed boundary around each of the five    *)
(* classes on a small grid, driven by set_time, apply and apply_operator.  *)
(***************************************************************************)
MaxTimeExponent == 3
MaxCalls == 3

\* The times handed to set_time, as indices: 0 s and 2^k units of 5e-15 s,
\* k up to MaxTimeExponent.
TimePoints == 0..(MaxTimeExponent + 1)
\* The cutoff times, as indices: 1e-14 s and 2e-14 s.
OffTimes == {2, 3}
BcDxArrays == {Arr(<<RInt(1), RInt(1)>>), Arr(<<RInt(2), <<1, 2>>, <<1, 2>> >>)}
BcTemperatures == {RInt(2), RInt(3)}
\* mat_man.k_arr, the conductivity at each node interface.
KArr(n_tot) == [i \in 0..(n_tot - 1) |-> RInt(i + 1)]
\* The temperature fields handed to apply and apply_operator.
TFields(n_tot) ==
    {[i \in 0..(n_tot - 1) |-> IF i < c THEN hot ELSE RInt(2)] :
        c \in 0..1, hot \in {RInt(3)}}

WrappedBoundaries ==
    UNION {
      {end_convection_set_params(end_bc(dx, e), RInt(2), T),
       end_flux_set_params(end_bc(dx, e), RInt(5)),
       end_radiation_set_params(end_bc(dx, e), <<1, 2>>, T)}
      : dx \in BcDxArrays, e \in {"Left", "Right"}, T \in BcTemperatures}
    \cup
    UNION {
      {ext_convection_set_params(ext_bc(dx, RInt(2)), RInt(3), T),
       ext_radiation_set_params(ext_bc(dx, RInt(2)), RInt(1), T)}
      : dx \in BcDxArrays, T \in BcTemperatures}

ZeroEqnSys(n_tot) ==
    LET z == [i \in 0..(n_tot - 1) |-> RZero]
    IN  [LHS_c |-> z, RHS |-> z, J_c |-> z, F |-> z]

NoCall == [op |-> "none", n |-> 0, raised |-> ""]
\* No solve_ode_all_nodes call is running.
NoStep == [pc |-> "idle", act_ind |-> 0, i |-> -1, T_in |-> <<>>, T_out |-> <<>>]

InitBC ==
    /\ grid = NewGrid
    /\ \E b \in WrappedBoundaries, off \in OffTimes :
          /\ tb = timed_boundary(b, off)
          /\ eqn_sys = ZeroEqnSys(b.n_tot)
    /\ call = NoCall
    /\ rxn = NoReactionManager
    /\ step = NoStep

SetTime ==
    /\ \E t \in TimePoints :
          /\ tb' = set_time(tb, t)
          /\ call' = [op |-> "set_time", n |-> call.n, raised |-> ""]
    /\ UNCHANGED <<grid, eqn_sys, rxn, step>>

\* apply before any set_time: reading self.tot_time raises AttributeError.
Apply ==
    /\ call.n < MaxCalls
    /\ \E T \in TFields(tb.bc.n_tot) :
          LET res == timed_apply(tb, eqn_sys, KArr(tb.bc.n_tot), T)
          IN  /\ eqn_sys' = res.eqn_sys
              /\ call' = [op |-> "apply", n |-> call.n + 1,
                          raised |-> res.raised, T |-> T]
    /\ UNCHANGED <<grid, tb, rxn, step>>

ApplyOperator ==
    /\ call.n < MaxCalls
    /\ \E T \in TFields(tb.bc.n_tot) :
          LET res == timed_apply_operator(tb, eqn_sys, KArr(tb.bc.n_tot), T)
          IN  /\ eqn_sys' = res.eqn_sys
              /\ call' = [op |-> "apply_operator", n |-> call.n + 1,
                          raised |-> res.raised, T |-> T]
    /\ UNCHANGED <<grid, tb, rxn, step>>

NextBC == SetTime \/ Apply \/ ApplyOperator

varsBC == <<grid, tb, eqn_sys, call, rxn, step>>

SpecBC == InitBC /\ [][NextBC]_varsBC

(***************************************************************************)
(* The grid specification: the parser hands set_table a layer table of    *)
(* 1..MaxLayers layers, each a material name, a requested dx and a         *)
(* thickness, and the grid is built from it.                               *)
(***************************************************************************)
\* set_table is called with a table of thicknesses in Thick and spacings in
\* Dx whose total thickness is at most MaxLen.
SetTableFrom(Thick, Dx, MaxLen) ==
    \E n \in 1..MaxLayers :
      \E nm \in [1..n -> MaterialNames], d \in [1..n -> Dx], t \in [1..n -> Thick] :
        /\ SumSeq(t, n) <= MaxLen
        /\ grid' = set_table(grid, [names |-> nm, dx |-> d, thickness |-> t])

SetTable ==
    /\ grid.status = "new"
    /\ SetTableFrom(1..MaxThickness, 1..MaxDx, MaxLayers * MaxThickness)
    /\ UNCHANGED <<tb, eqn_sys, call, rxn, step>>

SetupGrid ==
    /\ grid.status = "table"
    /\ grid' = setup_grid(grid)
    /\ UNCHANGED <<tb, eqn_sys, call, rxn, step>>

InitGrid ==
    /\ grid = NewGrid
    /\ tb = NoBoundary
    /\ eqn_sys = <<>>
    /\ call = NoCall
    /\ rxn = NoReactionManager
    /\ step = NoStep

NextGrid == SetTable \/ SetupGrid

varsGrid == <<grid, tb, eqn_sys, call, rxn, step>>

SpecGrid == InitGrid /\ [][NextGrid]_varsGrid

(***************************************************************************)
(* The run: the layer table is set and the grid built, an end boundary     *)
(* and the reaction manager are constructed, species and reactions are     *)
(* loaded, and the transient loop calls solve_ode_all_nodes once per macro *)
(* step.  An error raised during setup ends the run.  A solve call is      *)
(* followed pass by pass: step.pc is "loop" between the clear pass and the *)
(* return.                                                                 *)
(***************************************************************************)
MaxSteps == 3
\* The greatest total thickness of a run's layer table.
MaxRunLength == 4


Dims == ("Y Dimension" :> 1) @@ ("Z Dimension" :> 1)
OtherOpts ==
    {Dims,
     ("DSC Mode" :> 1) @@ Dims,
     ("DSC Mode" :> 1) @@ ("DSC Rate" :> 1) @@ Dims,
     ("Reaction Only" :> 1) @@ Dims}

SpecDict(fracs) ==
    ("Names" :> <<"A", "B">>) @@ ("Molecular Weights" :> <<1, 1>>) @@
    ("Material Name" :> "M1") @@ ("Initial Mass Fraction" :> fracs)
\* Fractions in eighths: all of A; 5/8 of A and 3/8 of B; a table that sums
\* to 1/2; a table with one fraction for two names.
SpecDicts ==
    {SpecDict(<<8, 0>>), SpecDict(<<5, 3>>),
     SpecDict(<<4, 0>>), SpecDict(<<8>>)}

\* Reaction 1 turns A into B, reaction 2 turns A into a gas that leaves.
RxnInfos(reactant, product) ==
    LET base == ("Reactant" :> reactant) @@ ("Product" :> product)
    IN  {base} \cup {("Active Cells" :> ac) @@ base : ac \in {<<1>>, <<2>>, <<0>>}}
RxnDicts ==
    {(1 :> a) : a \in RxnInfos("A", "B")}
    \cup {(1 :> a) @@ (2 :> b) :
            a \in RxnInfos("A", "B"),
            b \in {x \in RxnInfos("A", "") :
                     "Active Cells" \in DOMAIN x => x["Active Cells"] = <<2>>}}

\* The temperature fields of the transient loop: the nodes left of c hot.
TempFields(n_tot) ==
    {[j \in 0..(n_tot - 1) |-> IF j < c THEN RInt(1) ELSE RZero] :
        c \in {0, 1, n_tot - 1, n_tot} \cap 0..n_tot}

SetupCall(op) == [op |-> op, n |-> 0, raised |-> ""]
\* No call has raised, and the latest call was op.
After(op) == call.op = op /\ call.raised = ""

Init ==
    /\ grid = NewGrid
    /\ tb = NoBoundary
    /\ eqn_sys = <<>>
    /\ call = NoCall
    /\ rxn = NoReactionManager
    /\ step = NoStep

RunSetTable ==
    /\ After("none")
    /\ SetTableFrom(1..3, {1, 2}, MaxRunLength)
    /\ call' = SetupCall("set_table")
    /\ UNCHANGED <<tb, eqn_sys, rxn, step>>

RunSetupGrid ==
    /\ After("set_table")
    /\ grid' = setup_grid(grid)
    /\ call' = [SetupCall("setup_grid") EXCEPT !.raised = grid'.raised]
    /\ UNCHANGED <<tb, eqn_sys, rxn, step>>

ConstructBoundary ==
    /\ After("setup_grid")
    /\ \E my_end \in {"Left", "Top"} :
          LET b == end_bc(grid.dx_arr, my_end)
          IN  /\ call' = [SetupCall("end_bc") EXCEPT !.raised = b.raised]
              /\ tb' = IF b.raised = ""
                       THEN timed_boundary(end_flux_set_params(b, RInt(5)), 3)
                       ELSE tb
    /\ UNCHANGED <<grid, eqn_sys, rxn, step>>

ConstructReactionManager ==
    /\ After("end_bc")
    /\ \E other_opts \in OtherOpts :
          LET r == reaction_manager(grid, other_opts)
          IN  /\ call' = [SetupCall("reaction_manager") EXCEPT !.raised = r.raised]
              /\ rxn' = IF r.raised = "" THEN r ELSE rxn
    /\ UNCHANGED <<grid, tb, eqn_sys, step>>

LoadSpecies ==
    /\ After("reaction_manager")
    /\ \E spec_dict \in SpecDicts :
          /\ rxn' = load_species(rxn, spec_dict, MatMan(grid))
          /\ call' = [SetupCall("load_species") EXCEPT !.raised = rxn'.raised]
    /\ UNCHANGED <<grid, tb, eqn_sys, step>>

LoadReactions ==
    /\ After("load_species")
    /\ \E rxn_dict \in RxnDicts :
          /\ rxn' = load_reactions(rxn, rxn_dict)
          /\ call' = [op |-> "load_reactions", n |-> 0, raised |-> rxn'.raised,
                      rxn_dict |-> rxn_dict]
    /\ UNCHANGED <<grid, tb, eqn_sys, step>>

\* solve_ode_all_nodes is entered: T_out is a copy of T_in, and the nodes
\* pending from the step before are cleared.
SolveEnter ==
    /\ rxn.status = "ready"
    /\ step.pc = "idle"
    /\ call.n < MaxSteps
    /\ \E T_in \in TempFields(rxn.n_tot) :
          step' = [pc |-> "loop", act_ind |-> 0, i |-> -1,
                   T_in |-> T_in, T_out |-> T_in]
    /\ rxn' = ClearPending(rxn)
    /\ call' = [op |-> "solve_ode_all_nodes", n |-> call.n + 1, raised |-> ""]
    /\ UNCHANGED <<grid, tb, eqn_sys>>

\* One pass of the loop over the active nodes: the node is integrated, or
\* the pass finds that it has no reaction system and the call raises.
SolveNode ==
    /\ step.pc = "loop"
    /\ step.act_ind < Len(rxn.active_nodes)
    /\ LET res == IntegrateNode(rxn, step.T_in, step.T_out, step.act_ind)
       IN  IF res.raised = ""
           THEN /\ rxn' = res.rxn
                /\ step' = [step EXCEPT !.act_ind = @ + 1, !.i = res.i,
                                        !.T_out = res.T_out]
                /\ call' = call
           ELSE /\ rxn' = rxn
                /\ step' = [step EXCEPT !.pc = "idle", !.i = res.i]
                /\ call' = [call EXCEPT !.raised = res.raised]
    /\ UNCHANGED <<grid, tb, eqn_sys>>

\* The loop is over: T_out is returned.
SolveReturn ==
    /\ step.pc = "loop"
    /\ step.act_ind = Len(rxn.active_nodes)
    /\ step' = [step EXCEPT !.pc = "idle"]
    /\ UNCHANGED <<grid, tb, eqn_sys, call, rxn>>

Next ==
    \/ RunSetTable
    \/ RunSetupGrid
    \/ ConstructBoundary
    \/ ConstructReactionManager
    \/ LoadSpecies
    \/ LoadReactions
    \/ SolveEnter
    \/ SolveNode
    \/ SolveReturn

vars == <<grid, tb, eqn_sys, call, rxn, step>>

Spec == Init /\ [][Next]_vars

(***************************************************************************)
(* Claims about the grid builder (checked under SpecGrid).                 *)
(***************************************************************************)
GridDone == grid.status \in {"ok", "error"}
GridLayers == 1..Len(grid.layer_names)
\* The number of nodes the built grid gives layer m (1-based).
NodesInLayer(m) == grid.mint_list[m] - grid.first_node_list[m] + 1
\* T/d < 3/2: exactly the quotients that round (ties to even) below 2.
RoundsBelowTwo(T, d) == 2 * T < 3 * d
\* n is the integer nearest to T/d, the even one of the two on a tie.
IsNearest(n, T, d) ==
    /\ Abs(2 * (n * d - T)) <= d
    /\ (Abs(2 * (n * d - T)) = d => n % 2 = 0)

\* C6: setup_grid raises exactly when some layer has thickness < dx, or the
\* domain has several layers and some layer resolves to fewer than 2 nodes;
\* otherwise it succeeds (a single layer of one node included), and a built
\* multi-layer grid has at least 2 nodes in every layer.
C6_SetupGridFailsExactlyWhen ==
    GridDone =>
      /\ (grid.status = "error") <=>
           \/ \E m \in GridLayers : grid.layer_thickness[m] < grid.layer_dx[m]
           \/ /\ Len(grid.layer_names) > 1
              /\ \E m \in GridLayers :
                    RoundsBelowTwo(grid.layer_thickness[m], grid.layer_dx[m])
      /\ (grid.status = "ok" /\ grid.n_layers > 1) =>
           \A m \in GridLayers : NodesInLayer(m) >= 2

\* A single-layer domain of one node was accepted.
C6_Witness ==
    /\ grid.status = "ok"
    /\ grid.n_layers = 1
    /\ grid.n_tot = 1

\* C7 as stated: no successfully built grid has a layer of fewer than 2 nodes.
C7_Original ==
    grid.status = "ok" =>
      \A m \in GridLayers :
        /\ IsNearest(NodesInLayer(m), grid.layer_thickness[m], grid.layer_dx[m])
        /\ NodesInLayer(m) >= 2

\* C7 (amended): a successfully built grid gives every layer
\* n = round(T/d) >= 1 nodes, and n >= 2 when the domain has several layers.
C7_NodeCountIsRounded ==
    grid.status = "ok" =>
      \A m \in GridLayers :
        /\ grid.layer_thickness[m] >= grid.layer_dx[m]
        /\ IsNearest(NodesInLayer(m), grid.layer_thickness[m], grid.layer_dx[m])
        /\ NodesInLayer(m) >= 1
        /\ (grid.n_layers > 1 => NodesInLayer(m) >= 2)

\* A built grid whose layer count was rounded up and one rounded down.
C7_Witness ==
    /\ grid.status = "ok"
    /\ grid.n_layers = 2
    /\ NodesInLayer(1) * grid.layer_dx[1] > grid.layer_thickness[1]
    /\ NodesInLayer(2) * grid.layer_dx[2] < grid.layer_thickness[2]

\* C8: the layers partition 0..n_tot-1 into contiguous ranges in layer
\* order; a node of layer m has its material and spacing thickness/n_m;
\* positions increase strictly and the last right edge is the total
\* thickness.
C8_LayersPartitionNodes ==
    grid.status = "ok" =>
      LET L == grid.n_layers IN
      /\ grid.first_node_list[1] = 0
      /\ \A m \in 1..(L - 1) : grid.first_node_list[m + 1] = grid.mint_list[m] + 1
      /\ grid.mint_list[L] = grid.n_tot - 1
      /\ DOMAIN grid.mat_nodes = 0..(grid.n_tot - 1)
      /\ DOMAIN grid.dx_arr = 0..(grid.n_tot - 1)
      /\ \A m \in 1..L : \A i \in grid.first_node_list[m]..grid.mint_list[m] :
            /\ grid.mat_nodes[i] = grid.layer_names[m]
            /\ grid.dx_arr[i] = Rat(grid.layer_thickness[m], NodesInLayer(m))
            /\ Rat(NodesInLayer(m) * grid.dx_arr[i][1], grid.dx_arr[i][2])
                 = <<grid.layer_thickness[m], 1>>
      /\ \A i \in 0..(grid.n_tot - 2) : RLess(grid.x_node[i], grid.x_node[i + 1])
      /\ RAdd(grid.x_node[grid.n_tot - 1], RHalf(grid.dx_arr[grid.n_tot - 1]))
           = <<SumSeq(grid.layer_thickness, L), 1>>

\* A built two-layer grid whose layers have different spacings.
C8_Witness ==
    /\ grid.status = "ok"
    /\ grid.n_layers = 2
    /\ grid.dx_arr[0] # grid.dx_arr[grid.n_tot - 1]
    /\ grid.layer_names[1] # grid.layer_names[2]

(***************************************************************************)
(* Claims about the timed boundary (checked under SpecBC).                 *)
(***************************************************************************)
\* The time last given to set_time has reached the cutoff: off_time - tot_time <= 1e-14.
Suppressed(t) ==
    HasTotTime(t) /\ TimeUnits(t.off_time) - TimeUnits(t.tot_time) <= GateTolerance

\* What the wrapped boundary condition's own method does to the equation system.
WrappedEffect(op, T) ==
    IF op = "apply"
    THEN bc_apply(tb.bc, eqn_sys, KArr(tb.bc.n_tot), T)
    ELSE bc_apply_operator(tb.bc, eqn_sys, KArr(tb.bc.n_tot), T)

\* C9: a call of apply or apply_operator made when off_time - tot_time <= 1e-14
\* (the cutoff included) leaves LHS_c, RHS, J_c and F unchanged; made when
\* off_time - tot_time > 1e-14 it has exactly the wrapped call's effect; and
\* while the time does not decrease, a suppressing gate stays suppressing.
C9_TimedGate ==
    [][ /\ (call'.n = call.n + 1 /\ call'.raised = "") =>
              IF TimeUnits(tb.off_time) - TimeUnits(tb.tot_time) <= GateTolerance
              THEN eqn_sys' = eqn_sys
              ELSE eqn_sys' = WrappedEffect(call'.op, call'.T)
        /\ (Suppressed(tb) /\ TimeUnits(tb'.tot_time) >= TimeUnits(tb.tot_time))
              => Suppressed(tb')
      ]_varsBC

\* apply was called exactly at the cutoff, after an earlier call that the
\* gate let through.
C9_Witness ==
    /\ call.op = "apply"
    /\ call.raised = ""
    /\ call.n >= 2
    /\ tb.tot_time = tb.off_time
    /\ eqn_sys # ZeroEqnSys(tb.bc.n_tot)

(***************************************************************************)
(* Claims about the reaction manager (checked under Spec).                 *)
(***************************************************************************)
Ready(r) == r.status = "ready"
\* The nodes in active_nodes.
ActiveSet(r) == {r.active_nodes[q] : q \in 1..Len(r.active_nodes)}
\* The nodes flagged complete and waiting for the clear pass.
PendingSet(r) ==
    {r.active_nodes[r.inactive_node_list[q] + 1] : q \in 1..Len(r.inactive_node_list)}
\* The nodes of the reacting material.
MaterialNodes(r) == {j \in 0..(r.n_tot - 1) : r.mat_nodes[j] = r.mat_name}
\* The nodes that have been removed from active_nodes.
RemovedSet(r) == MaterialNodes(r) \ ActiveSet(r)
\* Everything the manager holds for node n.
NodeEntries(r, n) ==
    <<[nm \in DOMAIN r.species_density |-> r.species_density[nm][n]],
      [nm \in DOMAIN r.species_rate |-> r.species_rate[nm][n]],
      r.temperature_rate[n], r.heat_release_rate[n]>>
\* The completion predicate of node n's reaction system on its densities.
NodeComplete(r, n) ==
    check_complete(r.reaction_systems[r.node_to_system_map[n] + 1],
                   [j \in 1..(r.n_species + 1) |->
                      IF j <= r.n_species
                      THEN r.species_density[r.species_name_list[j]][n] ELSE RZero])
\* Node n's rates are zero and its densities are zero or not below the
\* small number.
NodeCleared(r, n) ==
    /\ \A nm \in DOMAIN r.species_rate : r.species_rate[nm][n] = RZero
    /\ r.temperature_rate[n] = RZero
    /\ r.heat_release_rate[n] = RZero
    /\ \A nm \in DOMAIN r.species_density :
          \/ r.species_density[nm][n] = RZero
          \/ ~RLess(r.species_density[nm][n], RInt(SmallNumber))
\* The steps of a running call, and the step that enters a call.
InLoop == Ready(rxn) /\ step.pc = "loop"
Entering == Ready(rxn) /\ step.pc = "idle" /\ step'.pc = "loop"
\* A pass of the loop that integrated a node (it did not raise).
Integrated == InLoop /\ step'.act_ind = step.act_ind + 1

\* C1: a node that completes in a step stays in active_nodes, with the
\* densities and rates of that step, while the step's loop runs; the clear
\* pass at the start of the next call clears and removes it before any
\* node is integrated; active_nodes never changes while a loop is running.
C1_ClearedAtNextStepStart ==
    [][ /\ InLoop =>
             /\ rxn'.active_nodes = rxn.active_nodes
             /\ \A n \in 0..(rxn.n_tot - 1) :
                   n # step'.i => NodeEntries(rxn', n) = NodeEntries(rxn, n)
             /\ PendingSet(rxn) \subseteq PendingSet(rxn')
        /\ Integrated =>
             (NodeComplete(rxn', step'.i) <=>
                step'.i \in PendingSet(rxn') \ PendingSet(rxn))
        /\ Entering =>
             /\ ActiveSet(rxn') = ActiveSet(rxn) \ PendingSet(rxn)
             /\ \A n \in PendingSet(rxn) : NodeCleared(rxn', n)
             /\ rxn'.inactive_node_list = <<>>
             /\ step'.act_ind = 0
      ]_vars

\* A call has just cleared and removed a node and is about to integrate
\* the nodes that remain.
C1_Witness ==
    /\ InLoop
    /\ step.act_ind = 0
    /\ RemovedSet(rxn) # {}
    /\ ActiveSet(rxn) # {}
    /\ call.n >= 2

\* C2: active_nodes never gains a member, and a node that has left it is
\* never integrated again: every pass integrates a node of active_nodes and
\* the entries of the removed nodes never change.
C2_NoReactivation ==
    [][ Ready(rxn) =>
          /\ ActiveSet(rxn') \subseteq ActiveSet(rxn)
          /\ Integrated => step'.i \in ActiveSet(rxn)
          /\ \A n \in RemovedSet(rxn) : NodeEntries(rxn', n) = NodeEntries(rxn, n)
      ]_vars

\* A node is integrated in a call made after another node was removed.
C2_Witness ==
    /\ InLoop
    /\ step.act_ind >= 1
    /\ RemovedSet(rxn) # {}
    /\ call.n >= 3

\* C3: a removed node has zero species rates, temperature rate and heat
\* release rate, and no density below the small number other than zero,
\* in every later state; the clear pass of a call clears exactly the nodes
\* that were flagged in the call before and changes no other node.
C3_ClearedStaysCleared ==
    /\ [](Ready(rxn) => \A n \in RemovedSet(rxn) : NodeCleared(rxn, n))
    /\ [][ Entering =>
             /\ RemovedSet(rxn') \ RemovedSet(rxn) = PendingSet(rxn)
             /\ \A n \in 0..(rxn.n_tot - 1) :
                   n \notin PendingSet(rxn) => NodeEntries(rxn', n) = NodeEntries(rxn, n)
         ]_vars

\* A removed node keeps a density that was not below the small number,
\* two calls after it was flagged.
C3_Witness ==
    /\ Ready(rxn)
    /\ step.pc = "idle"
    /\ call.n >= 3
    /\ \E n \in RemovedSet(rxn) : \E nm \in DOMAIN rxn.species_density :
          ~RLess(rxn.species_density[nm][n], RInt(SmallNumber))
    /\ ActiveSet(rxn) # {}

\* load_reactions has just returned without raising.
LoadedOK == call.op = "load_reactions" /\ call.raised = ""
\* The layer (1-based) of the built grid that holds node j.
LayerOfNode(j) ==
    CHOOSE m \in 1..grid.n_layers : grid.first_node_list[m] <= j /\ j <= grid.mint_list[m]
\* The cell of node j of the reacting material: its layer's rank among the
\* layers of that material.
CellOfNode(j) ==
    Cardinality({m \in 1..LayerOfNode(j) : grid.layer_names[m] = rxn.mat_name})
\* The reactions (keys of rxn_dict) flagged active on cell c.
Pattern(rxn_dict, c) ==
    {k \in DOMAIN rxn_dict :
        \/ "Active Cells" \notin DOMAIN rxn_dict[k]
        \/ \E q \in 1..Len(rxn_dict[k]["Active Cells"]) : rxn_dict[k]["Active Cells"][q] = c}
CellPatterns(rxn_dict) == {Pattern(rxn_dict, c) : c \in 1..rxn.n_cells}
\* sys holds exactly the reactions P: their models, and their columns of
\* fractional conversion, in key order.
SystemIs(sys, rxn_dict, P) ==
    LET ks == SortedSeq(P)
        made == [q \in 1..Len(ks) |-> rxn_model_factory(rxn_dict[ks[q]], rxn.material_info)]
    IN  /\ sys.model_list = [q \in 1..Len(ks) |-> made[q][1]]
        /\ sys.frac_mat = [j \in 1..rxn.n_species |-> [q \in 1..Len(ks) |-> made[q][2][j]]]

\* C4: after load_reactions, k distinct per-cell activation patterns have
\* given exactly k reaction systems (one when every reaction is active on
\* every cell), and every node of the reacting material is mapped to the
\* system that holds exactly the reactions flagged on the node's cell, with
\* their columns of fractional conversion.
C4_SystemsPerPattern ==
    LoadedOK =>
      /\ Len(rxn.reaction_systems) = Cardinality(CellPatterns(call.rxn_dict))
      /\ (/\ rxn.n_cells > 0
          /\ \A c \in 1..rxn.n_cells :
                Pattern(call.rxn_dict, c) = DOMAIN call.rxn_dict)
            => Len(rxn.reaction_systems) = 1
      /\ \A j \in MaterialNodes(rxn) :
            /\ rxn.node_to_system_map[j] >= 0
            /\ SystemIs(rxn.reaction_systems[rxn.node_to_system_map[j] + 1],
                        call.rxn_dict, Pattern(call.rxn_dict, CellOfNode(j)))

\* Two cells with different patterns got two systems, the first of them
\* holding two reactions.
C4_Witness ==
    /\ LoadedOK
    /\ rxn.n_cells = 2
    /\ Len(rxn.reaction_systems) = 2
    /\ Pattern(call.rxn_dict, 1) # Pattern(call.rxn_dict, 2)
    /\ Cardinality(Pattern(call.rxn_dict, 1)) = 2

SolveCalled == call.op = "solve_ode_all_nodes"

SetupCalls == {"setup_grid", "end_bc", "reaction_manager",
               "load_species", "load_reactions"}

\* C5: every error is raised by the setup or load call it belongs to, the
\* unresolved node-to-system mapping included: a manager that load_reactions
\* has made ready has a system for every active node, and no call of
\* solve_ode_all_nodes raises.
C5_ErrorsRaisedAtSetup ==
    /\ call.raised # "" => call.op \in SetupCalls
    /\ SolveCalled => call.raised = ""
    /\ Ready(rxn) => \A n \in ActiveSet(rxn) : ~NoSystem(rxn.node_to_system_map[n])

\* A call of solve_ode_all_nodes has returned after integrating a node
\* whose cell has no active reaction and a node whose cell has one.
C5_Witness ==
    /\ SolveCalled
    /\ step.pc = "idle"
    /\ call.raised = ""
    /\ step.act_ind >= 2
    /\ \E n \in ActiveSet(rxn) :
          rxn.reaction_systems[rxn.node_to_system_map[n] + 1].model_list = <<>>
    /\ \E n \in ActiveSet(rxn) :
          rxn.reaction_systems[rxn.node_to_system_map[n] + 1].model_list # <<>>

\* The orders in which the positions of active_nodes can be taken.
RECURSIVE Orders(_)
Orders(S) ==
    IF S = {} THEN {<<>>}
    ELSE UNION {{<<x>> \o o : o \in Orders(S \ {x})} : x \in S}
\* The loop of the running call taken in the given order.
LoopResult(order) ==
    LoopInOrder([raised |-> "", i |-> -1, rxn |-> rxn,
                 T_out |-> step.T_out, T_in |-> step.T_in], order, 1)
InOrder == [q \in 1..Len(rxn.active_nodes) |-> q - 1]
SameResult(a, b) ==
    /\ a.rxn.species_density = b.rxn.species_density
    /\ a.rxn.species_rate = b.rxn.species_rate
    /\ a.rxn.temperature_rate = b.rxn.temperature_rate
    /\ a.rxn.heat_release_rate = b.rxn.heat_release_rate
    /\ a.T_out = b.T_out
    /\ PendingSet(a.rxn) = PendingSet(b.rxn)
    /\ a.rxn.active_nodes = b.rxn.active_nodes
\* A call has made its clear pass and is about to start its loop.
LoopStart == InLoop /\ step.act_ind = 0

\* C10: whatever the order in which the loop takes the active nodes, no
\* pass raises and the call ends with the same densities, rates, T_out and
\* pending nodes.
C10_OrderIndependent ==
    LoopStart =>
      LET ref == LoopResult(InOrder)
      IN  \A order \in Orders(0..(Len(rxn.active_nodes) - 1)) :
             LET res == LoopResult(order)
             IN  /\ res.raised = ""
                 /\ SameResult(res, ref)

\* A loop is about to run over at least two nodes at different
\* temperatures, one of which it will flag and one not.
C10_Witness ==
    /\ LoopStart
    /\ Len(rxn.active_nodes) >= 2
    /\ RemovedSet(rxn) # {}
    /\ \E m, n \in ActiveSet(rxn) : step.T_in[m] # step.T_in[n]
    /\ LET res == LoopResult(InOrder)
       IN  /\ PendingSet(res.rxn) # {}
           /\ PendingSet(res.rxn) # ActiveSet(rxn)

\* The nodes outside active_nodes: the nodes of the other materials and
\* the removed nodes.
FrameSet(r) == (0..(r.n_tot - 1)) \ ActiveSet(r)
\* T_out agrees with T_in on every node outside active_nodes.
FrameTemperature ==
    (Ready(rxn) /\ SolveCalled) =>
       \A n \in FrameSet(rxn) : step.T_out[n] = step.T_in[n]
\* A step of the loop, or the return or raise that ends it, leaves T_in
\* and active_nodes as they are and writes no node outside active_nodes.
FrameLoop ==
    InLoop =>
       /\ step'.T_in = step.T_in
       /\ rxn'.active_nodes = rxn.active_nodes
       /\ \A n \in FrameSet(rxn) : NodeEntries(rxn', n) = NodeEntries(rxn, n)

\* C11 as stated: a call never modifies T_in, and every node outside
\* active_nodes after the call's clear pass has T_out[i] = T_in[i] and the
\* densities and rates it had when the call was entered.
C11_Original ==
    /\ []FrameTemperature
    /\ [][ /\ FrameLoop
           /\ Entering =>
                \A n \in FrameSet(rxn') : NodeEntries(rxn', n) = NodeEntries(rxn, n)
         ]_vars

\* C11 (amended): a call never modifies T_in; every node outside
\* active_nodes after the call's clear pass has T_out[i] = T_in[i] and is
\* not written by the loop; the nodes that were outside active_nodes when
\* the call was entered have the densities and rates they had then, and
\* the clear pass writes only the nodes it removes.
C11_FrameOfSolve ==
    /\ []FrameTemperature
    /\ [][ /\ FrameLoop
           /\ Entering =>
                /\ FrameSet(rxn') = FrameSet(rxn) \cup PendingSet(rxn)
                /\ \A n \in FrameSet(rxn) : NodeEntries(rxn', n) = NodeEntries(rxn, n)
         ]_vars

\* A call has returned that cleared or found a removed node, on a grid
\* with a layer of another material, and it changed the temperature and
\* the rates of a node it integrated.
C11_Witness ==
    /\ Ready(rxn)
    /\ SolveCalled
    /\ step.pc = "idle"
    /\ call.raised = ""
    /\ call.n >= 2
    /\ RemovedSet(rxn) # {}
    /\ FrameSet(rxn) \ MaterialNodes(rxn) # {}
    /\ \E n \in ActiveSet(rxn) :
          /\ step.T_out[n] # step.T_in[n]
          /\ rxn.temperature_rate[n] # RZero

=============================================================================
